---- MODULE Spec2Model ----
(***************************************************************************)
(* dng-caption-tool: CaptionGenerator (caption.py), GPSExtractor (gps.py)  *)
(* and the command line driver (cli.py).                                   *)
(*                                                                         *)
(* Three specifications share the module:                                  *)
(*   SpecGen  a caller constructs a CaptionGenerator and calls generate    *)
(*   SpecGeo  a caller calls GPSExtractor.reverse_geocode                  *)
(*   SpecCli  cli.main walks its list of images                            *)
(*                                                                         *)
(* Python values.  Optional[T] is a sequence of length at most one: None   *)
(* is <<>> and a value x is <<x>>.  A str the code inspects character by   *)
(* character (lower, strip) is a sequence of one-character strings; every  *)
(* other str is a TLA+ string.                                             *)
(***************************************************************************)
EXTENDS Integers, Sequences, FiniteSets, TLC

VARIABLES
    environ,    \* os.environ: the two credential variables
    ctorArgs,   \* arguments of the CaptionGenerator(...) call
    gen,        \* the CaptionGenerator object, or the exception __init__ raised
    gpc,        \* position of the caller of the generator
    call,       \* arguments of the generate call in progress / just returned
    remote,     \* what the provider's API did with the request of that call
    requests,   \* requests issued to the provider's API by that call
    result,     \* outcome of that call: a returned caption or a raised exception
    geo,        \* the reverse_geocode call in progress / just returned
    cli         \* cli.main: arguments, loop position, printed lines, exit code

vars == <<environ, ctorArgs, gen, gpc, call, remote, requests, result, geo, cli>>

genVars == <<environ, ctorArgs, gen, gpc, call, remote, requests, result>>

-----------------------------------------------------------------------------
(* Bounds *)

MaxTextLen == 3      \* longest response text the remote API returns
MaxRetries == 3      \* largest retries argument given to reverse_geocode
MaxImages == 2       \* longest list of images given to the command line

-----------------------------------------------------------------------------
(* Python values *)

None == <<>>

Some(x) == <<x>>

\* Python truthiness of an Optional[str]: None and "" are falsy.
Truthy(o) == o # None /\ o[1] # ""

\* a or b
PyOr(a, b) == IF Truthy(a) THEN a ELSE b

UpperLetters ==
    <<"A","B","C","D","E","F","G","H","I","J","K","L","M",
      "N","O","P","Q","R","S","T","U","V","W","X","Y","Z">>

LowerLetters ==
    <<"a","b","c","d","e","f","g","h","i","j","k","l","m",
      "n","o","p","q","r","s","t","u","v","w","x","y","z">>

LowerChar(c) ==
    IF \E i \in 1..Len(UpperLetters) : UpperLetters[i] = c
    THEN LowerLetters[CHOOSE i \in 1..Len(UpperLetters) : UpperLetters[i] = c]
    ELSE c

\* str.lower()
Lower(s) == [i \in 1..Len(s) |-> LowerChar(s[i])]

Whitespace == {" ", "\n", "\t"}

RECURSIVE LStrip(_)
LStrip(s) ==
    IF s # <<>> /\ Head(s) \in Whitespace THEN LStrip(Tail(s)) ELSE s

RECURSIVE RStrip(_)
RStrip(s) ==
    IF s # <<>> /\ s[Len(s)] \in Whitespace
    THEN RStrip(SubSeq(s, 1, Len(s) - 1))
    ELSE s

Strip_LeftOnly(s) == LStrip(s)

\* str.strip()
Strip(s) == RStrip(LStrip(s))

Count(seq, x) == Cardinality({i \in 1..Len(seq) : seq[i] = x})

Raise(exc, detail) == [kind |-> "raise", exc |-> exc, detail |-> detail]

Return(value) == [kind |-> "return", value |-> value]

NoCall == [kind |-> "none"]

-----------------------------------------------------------------------------
(* caption.py: class CaptionGenerator *)

S_claude == <<"c","l","a","u","d","e">>

S_openai == <<"o","p","e","n","a","i">>

CLAUDE_MODELS ==
    ("haiku" :> [name |-> "claude-3-haiku-20240307", cost |-> "0.001",
                 description |-> "Fast and affordable"]) @@
    ("sonnet" :> [name |-> "claude-3-5-sonnet-20241022", cost |-> "0.003",
                  description |-> "Best balance"]) @@
    ("opus" :> [name |-> "claude-opus-4-5-20251101", cost |-> "0.015",
                description |-> "Highest quality"])

OPENAI_MODELS ==
    ("gpt-4o" :> [name |-> "gpt-4o", cost |-> "0.005",
                  description |-> "Latest GPT-4 with vision"]) @@
    ("gpt-4o-mini" :> [name |-> "gpt-4o-mini", cost |-> "0.00015",
                       description |-> "Fast and affordable GPT-4"]) @@
    ("gpt-4-turbo" :> [name |-> "gpt-4-turbo", cost |-> "0.01",
                       description |-> "Previous GPT-4 Turbo"])

STYLES ==
    ("descriptive" :> "Write a 2-3 sentence professional caption for this image.") @@
    ("social" :> "Generate an engaging, but straightforward caption for Instagram using the image and metadata. Follow these guidelines:\n- First line should be descriptive of what the subject is if known\n- Use a masculine voice and avoid excessively flowery language\n- Use any location data if available\n- Append the caption with up to 8 hashtags that are likely to drive traffic and engagement\n- Keep the tone engaging but direct") @@
    ("minimal" :> "Write a brief one-sentence caption.") @@
    ("artistic" :> "Write a poetic, evocative caption.") @@
    ("documentary" :> "Write a factual, journalistic caption.") @@
    ("travel" :> "Write a travel photography caption emphasizing the location.")

MaxTokens == 300

\* os.environ.get(name)
EnvGet(env, name) == env[name]

CaptionGenerator_init_OneVariable(env, api_key, provider) ==
    LET p == Lower(provider)
        key == PyOr(api_key, EnvGet(env, "ANTHROPIC_API_KEY"))
    IN IF p \notin {S_claude, S_openai} THEN Raise("ValueError", "Invalid provider")
       ELSE IF ~Truthy(key) THEN Raise("ValueError", "API key required")
       ELSE [kind |-> "object", provider |-> p, api_key |-> key,
             client |-> IF p = S_claude THEN "anthropic" ELSE "openai",
             models |-> IF p = S_claude THEN CLAUDE_MODELS ELSE OPENAI_MODELS]

\* CaptionGenerator.__init__: the object built, or the exception raised.
CaptionGenerator_init(env, api_key, provider) ==
    LET p == Lower(provider) IN
    IF p = S_claude THEN
        LET key == PyOr(api_key, EnvGet(env, "ANTHROPIC_API_KEY")) IN
        IF ~Truthy(key)
        THEN Raise("ValueError", "Anthropic API key required (set ANTHROPIC_API_KEY)")
        ELSE [kind |-> "object", provider |-> p, api_key |-> key,
              client |-> "anthropic", models |-> CLAUDE_MODELS]
    ELSE IF p = S_openai THEN
        LET key == PyOr(api_key, EnvGet(env, "OPENAI_API_KEY")) IN
        IF ~Truthy(key)
        THEN Raise("ValueError", "OpenAI API key required (set OPENAI_API_KEY)")
        ELSE [kind |-> "object", provider |-> p, api_key |-> key,
              client |-> "openai", models |-> OPENAI_MODELS]
    ELSE Raise("ValueError", "Invalid provider")

prepare_image_OpensAnything(image) ==
    IF image.file = "missing" THEN Raise("FileNotFoundError", image.path)
    ELSE Return([path |-> image.path, mode |-> "RGB", format |-> "JPEG",
                 encoding |-> "base64"])

\* CaptionGenerator._prepare_image: Image.open raises on a file that is missing
\* or is no image; otherwise the image is converted to RGB, bounded to
\* 1600x1600, saved as JPEG and base64-encoded.
prepare_image(image) ==
    IF image.file = "missing" THEN Raise("FileNotFoundError", image.path)
    ELSE IF image.file = "not_an_image" THEN Raise("UnidentifiedImageError", image.path)
    ELSE Return([path |-> image.path, mode |-> "RGB", format |-> "JPEG",
                 encoding |-> "base64"])

\* _generate_claude, "Build prompt":
\*   prompt = self.STYLES.get(style, self.STYLES['descriptive'])
\*   if location_context: prompt += f"\n\n{location_context}"
ClaudePrompt(style, location_context) ==
    LET prompt == IF style \in DOMAIN STYLES THEN STYLES[style]
                  ELSE STYLES["descriptive"]
    IN IF Truthy(location_context)
       THEN prompt \o "\n\n" \o location_context[1]
       ELSE prompt

OpenAIPrompt_NoFallback(style, location_context) ==
    LET prompt == IF style \in DOMAIN STYLES THEN STYLES[style] ELSE ""
    IN IF Truthy(location_context)
       THEN prompt \o "\n\n" \o location_context[1]
       ELSE prompt

\* _generate_openai, "Build prompt": the same two statements.
OpenAIPrompt(style, location_context) ==
    LET prompt == IF style \in DOMAIN STYLES THEN STYLES[style]
                  ELSE STYLES["descriptive"]
    IN IF Truthy(location_context)
       THEN prompt \o "\n\n" \o location_context[1]
       ELSE prompt

ClaudeDefault_AlwaysFast(style) == "haiku"

\* Model resolution of _generate_claude: the style-aware default, then the
\* membership test against CLAUDE_MODELS.
ClaudeDefault(style) == IF style = "social" THEN "opus" ELSE "haiku"

\* Model resolution of _generate_openai.
OpenAIDefault(style) == IF style = "social" THEN "gpt-4o" ELSE "gpt-4o-mini"

\* response.content[0].text.strip()
ClaudeExtract(response) ==
    IF response.content = <<>> THEN Raise("IndexError", "list index out of range")
    ELSE Return(Strip(response.content[1].text))

\* response.choices[0].message.content.strip()
OpenAIExtract(response) ==
    IF response.choices = <<>> THEN Raise("IndexError", "list index out of range")
    ELSE IF response.choices[1].content = None
    THEN Raise("AttributeError", "'NoneType' object has no attribute 'strip'")
    ELSE Return(Strip(response.choices[1].content[1]))

\* CaptionGenerator._generate_claude.  api is what self.client.messages.create
\* does with the request: it raises, or it returns a response.  The value is
\* the outcome of the call and the requests it issued.
generate_claude(image, style, model, location_context, api) ==
    LET m == IF model = None THEN ClaudeDefault(style) ELSE model[1] IN
    IF m \notin DOMAIN CLAUDE_MODELS
    THEN [result |-> Raise("ValueError", "Invalid Claude model"), requests |-> <<>>]
    ELSE
    LET image_base64 == prepare_image(image) IN
    IF image_base64.kind = "raise"
    THEN [result |-> image_base64, requests |-> <<>>]
    ELSE
    LET prompt == ClaudePrompt(style, location_context)
        request == [api |-> "anthropic.messages.create",
                    model |-> CLAUDE_MODELS[m].name,
                    max_tokens |-> MaxTokens,
                    image |-> image_base64.value,
                    text |-> prompt]
    IN [result |-> IF api.kind = "error" THEN Raise("APIError", api.detail)
                   ELSE ClaudeExtract(api),
        requests |-> <<request>>]

generate_openai_ImageFirst(image, style, model, location_context, api) ==
    LET m == IF model = None THEN OpenAIDefault(style) ELSE model[1]
        image_base64 == prepare_image(image)
    IN
    IF image_base64.kind = "raise"
    THEN [result |-> image_base64, requests |-> <<>>]
    ELSE IF m \notin DOMAIN OPENAI_MODELS
    THEN [result |-> Raise("ValueError", "Invalid OpenAI model"), requests |-> <<>>]
    ELSE
    LET prompt == OpenAIPrompt(style, location_context)
        request == [api |-> "openai.chat.completions.create",
                    model |-> OPENAI_MODELS[m].name,
                    max_tokens |-> MaxTokens,
                    image |-> image_base64.value,
                    text |-> prompt]
    IN [result |-> IF api.kind = "error" THEN Raise("APIError", api.detail)
                   ELSE OpenAIExtract(api),
        requests |-> <<request>>]

\* CaptionGenerator._generate_openai, with self.client.chat.completions.create.
generate_openai(image, style, model, location_context, api) ==
    LET m == IF model = None THEN OpenAIDefault(style) ELSE model[1] IN
    IF m \notin DOMAIN OPENAI_MODELS
    THEN [result |-> Raise("ValueError", "Invalid OpenAI model"), requests |-> <<>>]
    ELSE
    LET image_base64 == prepare_image(image) IN
    IF image_base64.kind = "raise"
    THEN [result |-> image_base64, requests |-> <<>>]
    ELSE
    LET prompt == OpenAIPrompt(style, location_context)
        request == [api |-> "openai.chat.completions.create",
                    model |-> OPENAI_MODELS[m].name,
                    max_tokens |-> MaxTokens,
                    image |-> image_base64.value,
                    text |-> prompt]
    IN [result |-> IF api.kind = "error" THEN Raise("APIError", api.detail)
                   ELSE OpenAIExtract(api),
        requests |-> <<request>>]

\* CaptionGenerator.generate: route on self.provider.
generate(self, image, style, model, location_context, api) ==
    IF self.provider = S_claude
    THEN generate_claude(image, style, model, location_context, api)
    ELSE generate_openai(image, style, model, location_context, api)

-----------------------------------------------------------------------------
(* The inputs of the generator *)

\* Values of an environment variable and of the api_key argument.
Credentials == {None, Some(""), Some("sk-env")}

ApiKeys == {None, Some(""), Some("sk-arg")}

ProviderArgs ==
    {S_claude, S_openai,
     <<"C","l","a","u","d","e">>, <<"O","P","E","N","A","I">>,
     <<"g","e","m","i","n","i">>, <<>>}

Images ==
    {[path |-> "a.jpg", file |-> "image"],
     [path |-> "gone.jpg", file |-> "missing"],
     [path |-> "notes.txt", file |-> "not_an_image"]}

StyleArgs == DOMAIN STYLES \cup {"haiku-poem"}

ModelArgs ==
    {None} \cup {Some(k) : k \in DOMAIN CLAUDE_MODELS \cup DOMAIN OPENAI_MODELS}
           \cup {Some("gpt-5"), Some("")}

LocationArgs == {None, Some(""), Some("Location: Paris, France")}

RECURSIVE SeqsUpTo(_, _)
SeqsUpTo(S, n) ==
    IF n = 0 THEN {<<>>}
    ELSE LET shorter == SeqsUpTo(S, n - 1)
         IN shorter \cup {Append(s, c) : s \in shorter, c \in S}

\* Texts a response may carry.
Texts == SeqsUpTo({" ", "\n", "a"}, MaxTextLen)

ApiErrors == {"authentication", "rate_limit", "bad_request", "network", "timeout"}

\* What messages.create may do: raise, or return a content list.
ClaudeApi ==
    {[kind |-> "error", detail |-> d] : d \in ApiErrors}
    \cup {[kind |-> "response", content |-> <<>>]}
    \cup {[kind |-> "response", content |-> <<[text |-> t]>>] : t \in Texts}
    \cup {[kind |-> "response", content |-> <<[text |-> t], [text |-> <<"b">>]>>] :
            t \in Texts}

\* What chat.completions.create may do: raise, or return a list of choices.
OpenAIApi ==
    {[kind |-> "error", detail |-> d] : d \in ApiErrors}
    \cup {[kind |-> "response", choices |-> <<>>]}
    \cup {[kind |-> "response", choices |-> <<[content |-> None]>>]}
    \cup {[kind |-> "response", choices |-> <<[content |-> Some(t)]>>] : t \in Texts}

ApiOf(self) == IF self.provider = S_claude THEN ClaudeApi ELSE OpenAIApi

\* The remote API is reached only by a call that issues a request.
NotReached == [kind |-> "not_reached"]

-----------------------------------------------------------------------------
(* SpecGen: a caller of CaptionGenerator *)

NoGeo == [pc |-> "unused"]

NoCli == [pc |-> "unused"]

NoGen == [kind |-> "unbuilt"]

NoArgs == [kind |-> "none"]

InitGen ==
    /\ environ \in [{"ANTHROPIC_API_KEY", "OPENAI_API_KEY"} -> Credentials]
    /\ ctorArgs = NoArgs
    /\ gen = NoGen
    /\ gpc = "start"
    /\ call = NoCall
    /\ remote = NotReached
    /\ requests = <<>>
    /\ result = NoCall
    /\ geo = NoGeo
    /\ cli = NoCli

\* generator = CaptionGenerator(api_key, provider)
Construct ==
    /\ gpc = "start"
    /\ \E api_key \in ApiKeys, provider \in ProviderArgs :
        /\ ctorArgs' = [kind |-> "args", api_key |-> api_key, provider |-> provider]
        /\ gen' = CaptionGenerator_init(environ, api_key, provider)
    /\ gpc' = IF gen'.kind = "object" THEN "idle" ELSE "failed"
    /\ UNCHANGED <<environ, call, remote, requests, result, geo, cli>>

\* generator.generate(image_path, style, model, location_context), from the
\* call to its return or raise.
CallGenerate ==
    /\ gpc = "idle"
    /\ \E image \in Images, style \in StyleArgs, model \in ModelArgs,
          location_context \in LocationArgs, api \in ApiOf(gen) :
        LET out == generate(gen, image, style, model, location_context, api) IN
        /\ call' = [kind |-> "generate", image |-> image, style |-> style,
                    model |-> model, location_context |-> location_context]
        /\ requests' = out.requests
        /\ remote' = IF out.requests = <<>> THEN NotReached ELSE api
        /\ result' = out.result
    /\ gpc' = "returned"
    /\ UNCHANGED <<environ, ctorArgs, gen, geo, cli>>

\* The caller takes the caption or handles the exception, and may call again.
Resume ==
    /\ gpc = "returned"
    /\ gpc' = "idle"
    /\ call' = NoCall
    /\ remote' = NotReached
    /\ requests' = <<>>
    /\ result' = NoCall
    /\ UNCHANGED <<environ, ctorArgs, gen, geo, cli>>

NextGen == Construct \/ CallGenerate \/ Resume

SpecGen == InitGen /\ [][NextGen]_vars

-----------------------------------------------------------------------------
(* gps.py: class GPSExtractor *)

\* GPSExtractor._convert_to_degrees, for a coordinate of whole degrees
\* (minutes and seconds 0/1): the sign follows the hemisphere reference.
convert_to_degrees(value, ref) == IF ref \in {"S", "W"} THEN -value ELSE value

\* GPSExtractor.extract_gps: None when the file cannot be opened, carries no
\* EXIF block or no GPS latitude, or on any exception; otherwise the dict.
extract_gps(image) ==
    IF image.file # "image" \/ image.exif # "gps" THEN None
    ELSE Some([latitude |-> convert_to_degrees(image.lat[1], image.lat[2]),
               longitude |-> convert_to_degrees(image.lon[1], image.lon[2])])

\* address.get('city') or address.get('town') or ... : the first truthy one.
FirstTruthy(a, b) == IF Truthy(a) THEN a ELSE b

\* ', '.join(parts)
RECURSIVE Join(_)
Join(parts) ==
    IF parts = <<>> THEN ""
    ELSE IF Len(parts) = 1 THEN parts[1]
    ELSE parts[1] \o ", " \o Join(Tail(parts))

\* GPSExtractor._parse_location
parse_location(location) ==
    LET address == location.raw
        city == FirstTruthy(address.city, FirstTruthy(address.town,
                    FirstTruthy(address.village, address.hamlet)))
        parts == (IF Truthy(city) THEN <<city[1]>> ELSE <<>>)
                 \o (IF Truthy(address.state) THEN <<address.state[1]>> ELSE <<>>)
                 \o (IF Truthy(address.country) THEN <<address.country[1]>> ELSE <<>>)
    IN [formatted |-> IF parts # <<>> THEN Join(parts) ELSE location.address,
        city |-> city,
        state |-> address.state,
        country |-> address.country,
        full_address |-> location.address]

\* The except clause of reverse_geocode.
Retryable(exc) == exc \in {"GeocoderTimedOut", "GeocoderServiceError"}

SleepsAfter_Always(attempt, retries) == TRUE

\* if attempt < retries - 1: time.sleep(1)
SleepsAfter(attempt, retries) == attempt < retries - 1

\* GPSExtractor.reverse_geocode from loop index attempt on.  service[k] is what
\* self.geolocator.reverse does at its k-th call: it returns a location, returns
\* nothing, or raises.  trace lists the calls of reverse and of time.sleep made.
RECURSIVE reverse_geocode_loop(_, _, _, _)
reverse_geocode_loop(service, retries, attempt, trace) ==
    IF attempt >= retries THEN [result |-> Return(None), trace |-> trace]
    ELSE
    LET r == service[attempt + 1]
        t == Append(trace, "reverse")
    IN IF r.kind = "location"
       THEN [result |-> Return(Some(parse_location(r.location))), trace |-> t]
       ELSE IF r.kind = "nothing"
       THEN reverse_geocode_loop(service, retries, attempt + 1, t)
       ELSE IF Retryable(r.exc)
       THEN reverse_geocode_loop(service, retries, attempt + 1,
                IF SleepsAfter(attempt, retries) THEN Append(t, "sleep") ELSE t)
       ELSE [result |-> Raise(r.exc, "geolocator.reverse"), trace |-> t]

\* GPSExtractor.reverse_geocode(latitude, longitude, retries)
reverse_geocode(service, retries) == reverse_geocode_loop(service, retries, 0, <<>>)

DefaultRetries == 2

-----------------------------------------------------------------------------
(* The geocoding service *)

Places ==
    {[raw |-> [city |-> Some("Paris"), town |-> None, village |-> None,
               hamlet |-> None, state |-> Some("Ile-de-France"),
               country |-> Some("France")],
      address |-> "Tour Eiffel, Paris, France"],
     [raw |-> [city |-> None, town |-> None, village |-> None, hamlet |-> None,
               state |-> None, country |-> None],
      address |-> "North Atlantic Ocean"]}

\* What one call of geolocator.reverse may do.  ValueError is what geopy raises
\* for a latitude outside [-90, 90].
ServiceOutcomes ==
    {[kind |-> "location", location |-> l] : l \in Places}
    \cup {[kind |-> "nothing"]}
    \cup {[kind |-> "raise", exc |-> e] :
            e \in {"GeocoderTimedOut", "GeocoderServiceError", "ValueError"}}

-----------------------------------------------------------------------------
(* SpecGeo: a caller of GPSExtractor.reverse_geocode *)

InitGeo ==
    /\ environ = [ANTHROPIC_API_KEY |-> None, OPENAI_API_KEY |-> None]
    /\ ctorArgs = NoArgs
    /\ gen = NoGen
    /\ gpc = "unused"
    /\ call = NoCall
    /\ remote = NotReached
    /\ requests = <<>>
    /\ result = NoCall
    /\ geo = [pc |-> "idle"]
    /\ cli = NoCli

\* extractor.reverse_geocode(lat, lon, retries), from the call to its return
\* or raise.
CallReverseGeocode ==
    /\ geo.pc = "idle"
    /\ \E retries \in 0..MaxRetries :
        \E service \in [1..retries -> ServiceOutcomes] :
            LET out == reverse_geocode(service, retries) IN
            geo' = [pc |-> "returned", retries |-> retries, service |-> service,
                    result |-> out.result, trace |-> out.trace]
    /\ UNCHANGED <<genVars, cli>>

GeoResume ==
    /\ geo.pc = "returned"
    /\ geo' = [pc |-> "idle"]
    /\ UNCHANGED <<genVars, cli>>

NextGeo == CallReverseGeocode \/ GeoResume

SpecGeo == InitGeo /\ [][NextGeo]_vars

\* Every attempt of the call raised a timeout or a service error.
C6_AllRetryable ==
    \A k \in 1..geo.retries :
        /\ geo.service[k].kind = "raise"
        /\ geo.service[k].exc \in {"GeocoderTimedOut", "GeocoderServiceError"}

\* C6: when every attempt raises a timeout or service error, reverse_geocode
\* with retries = n makes exactly n attempts, sleeps exactly once between each
\* two consecutive attempts (n - 1 sleeps for n >= 1, none after the last
\* attempt) and returns None.
C6_RetriesThenNone ==
    (geo.pc = "returned" /\ C6_AllRetryable) =>
        /\ Count(geo.trace, "reverse") = geo.retries
        /\ Count(geo.trace, "sleep") = IF geo.retries >= 1 THEN geo.retries - 1 ELSE 0
        /\ \A i \in 1..Len(geo.trace) :
             /\ (i % 2 = 1) => geo.trace[i] = "reverse"
             /\ (i % 2 = 0) => geo.trace[i] = "sleep"
        /\ geo.trace # <<>> => geo.trace[Len(geo.trace)] = "reverse"
        /\ geo.result = Return(None)

\* C6 witness: the default two attempts, a timeout then a service error.
C6_Witness ==
    /\ geo.pc = "returned"
    /\ geo.retries = DefaultRetries
    /\ geo.service[1] = [kind |-> "raise", exc |-> "GeocoderTimedOut"]
    /\ geo.service[2] = [kind |-> "raise", exc |-> "GeocoderServiceError"]
    /\ geo.trace = <<"reverse", "sleep", "reverse">>
    /\ geo.result = Return(None)


-----------------------------------------------------------------------------
(* cli.py: main *)

PreviewLen == 50

\* caption[:50]
Take(seq, n) == SubSeq(seq, 1, IF Len(seq) < n THEN Len(seq) ELSE n)

\* Exception classes the model raises; all derive from Exception.
ExceptionClasses ==
    {"ValueError", "FileNotFoundError", "UnidentifiedImageError", "APIError",
     "IndexError", "AttributeError", "GeocoderTimedOut", "GeocoderServiceError",
     "OSError"}

Catches_ValueErrorOnly(exc) == exc = "ValueError"

\* except Exception as e:
Catches(exc) == exc \in ExceptionClasses

\* print(f"File not found: {path}")
NotFoundLine(i, image) == [image |-> i, mark |-> "File not found", text |-> image.path]

\* print(f"(check) {path.name}: {caption[:50]}...")
SuccessLine(i, caption) ==
    [image |-> i, mark |-> "success", text |-> Take(caption, PreviewLen) \o <<".", ".", ".">>]

\* print(f"(cross) {path.name}: {e}")
FailureLine(i, exc) == [image |-> i, mark |-> "failure", text |-> exc.exc]

\* XMPEmbedder.embed(path, caption): it writes the caption, or it raises.
EmbedOutcomes == {Return(None), Raise("OSError", "embed")}

\* The try block of the loop body for the i-th image, up to the point where
\* it completes or an exception leaves it: the lines it printed, the exception
\* (or None), and which collaborators were called.
TryBlock(i, image, args, generator, service, api, embedding) ==
    LET gps_data == IF args.no_gps THEN None ELSE extract_gps(image)
        geocoded == gps_data # None
        located == IF geocoded THEN reverse_geocode(service, DefaultRetries)
                   ELSE [result |-> Return(None), trace |-> <<>>]
        step == [geocode |-> IF geocoded THEN located.result.kind ELSE "not_called",
                 attempts |-> IF geocoded THEN SubSeq(service, 1, Count(located.trace, "reverse"))
                              ELSE <<>>,
                 generate |-> "not_called", requests |-> 0, embed |-> "not_called"]
    IN IF located.result.kind = "raise"
       THEN [lines |-> <<>>, exc |-> Some(located.result), step |-> step]
       ELSE
       LET location_context ==
               IF located.result.value # None
               THEN Some("Location: " \o located.result.value[1].formatted)
               ELSE None
           out == generate(generator, image, args.style, args.model, location_context, api)
           step2 == [step EXCEPT !.generate = out.result.kind,
                                 !.requests = Len(out.requests)]
       IN IF out.result.kind = "raise"
          THEN [lines |-> <<>>, exc |-> Some(out.result), step |-> step2]
          ELSE
          LET printed == <<SuccessLine(i, out.result.value)>> IN
          IF ~args.embed
          THEN [lines |-> printed, exc |-> None, step |-> step2]
          ELSE [lines |-> printed,
                exc |-> IF embedding.kind = "raise" THEN Some(embedding) ELSE None,
                step |-> [step2 EXCEPT !.embed = embedding.kind]]

\* One iteration of "for image_path in args.images": the lines printed, the
\* exception that leaves main (or None), and the record of the iteration.
LoopBody(i, image, args, generator, service, api, embedding) ==
    IF image.file = "missing"
    THEN [lines |-> <<NotFoundLine(i, image)>>, exc |-> None,
          step |-> [geocode |-> "not_called", attempts |-> <<>>,
                    generate |-> "not_called", requests |-> 0, embed |-> "not_called"]]
    ELSE
    LET try == TryBlock(i, image, args, generator, service, api, embedding) IN
    IF try.exc = None THEN try
    ELSE IF Catches(try.exc[1].exc)
    THEN [lines |-> Append(try.lines, FailureLine(i, try.exc[1])),
          exc |-> None, step |-> try.step]
    ELSE try

-----------------------------------------------------------------------------
(* The inputs of the command line *)

CliImages ==
    {[path |-> "gone.jpg", file |-> "missing", exif |-> "none",
      lat |-> <<0, "N">>, lon |-> <<0, "E">>],
     [path |-> "notes.txt", file |-> "not_an_image", exif |-> "none",
      lat |-> <<0, "N">>, lon |-> <<0, "E">>],
     [path |-> "scan.jpg", file |-> "image", exif |-> "none",
      lat |-> <<0, "N">>, lon |-> <<0, "E">>],
     [path |-> "sydney.jpg", file |-> "image", exif |-> "gps",
      lat |-> <<33, "S">>, lon |-> <<151, "E">>]}

RECURSIVE SeqsOfLen(_, _)
SeqsOfLen(S, n) ==
    IF n = 0 THEN {<<>>}
    ELSE {Append(s, c) : s \in SeqsOfLen(S, n - 1), c \in S}

\* parser.parse_args(): nargs='+' images, the provider and style choices.
CliArgs ==
    [images : UNION {SeqsOfLen(CliImages, n) : n \in 1..MaxImages},
     provider : {S_claude, S_openai},
     model : {None, Some("gpt-4o")},
     style : {"descriptive", "social"},
     no_gps : BOOLEAN,
     embed : BOOLEAN]

CliEnvirons ==
    {[ANTHROPIC_API_KEY |-> Some("sk-env"), OPENAI_API_KEY |-> Some("sk-env")],
     [ANTHROPIC_API_KEY |-> Some("sk-env"), OPENAI_API_KEY |-> None]}

\* The geocoding service over the two attempts of one reverse_geocode call.
CliServices ==
    [1..DefaultRetries ->
        {[kind |-> "location", location |-> l] : l \in Places}
        \cup {[kind |-> "raise", exc |-> e] : e \in {"GeocoderTimedOut", "ValueError"}}]

CliApi(self) ==
    IF self.provider = S_claude
    THEN {[kind |-> "error", detail |-> "rate_limit"],
          [kind |-> "response", content |-> <<[text |-> <<" ", "a">>]>>]}
    ELSE {[kind |-> "error", detail |-> "rate_limit"],
          [kind |-> "response", choices |-> <<[content |-> Some(<<" ", "a">>)]>>]}

-----------------------------------------------------------------------------
(* SpecCli: one run of cli.main *)

InitCli ==
    /\ environ \in CliEnvirons
    /\ ctorArgs = NoArgs
    /\ gen = NoGen
    /\ gpc = "unused"
    /\ call = NoCall
    /\ remote = NotReached
    /\ requests = <<>>
    /\ result = NoCall
    /\ geo = NoGeo
    /\ \E args \in CliArgs :
        cli = [pc |-> "start", args |-> args, i |-> 0, lines |-> <<>>,
               steps |-> <<>>, exit |-> None]

\* generator = CaptionGenerator(provider=args.provider); an exception of the
\* constructor leaves main.
MainConstruct ==
    /\ cli.pc = "start"
    /\ ctorArgs' = [kind |-> "args", api_key |-> None, provider |-> cli.args.provider]
    /\ gen' = CaptionGenerator_init(environ, None, cli.args.provider)
    /\ cli' = [cli EXCEPT !.pc = IF gen'.kind = "object" THEN "loop" ELSE "raised"]
    /\ UNCHANGED <<environ, gpc, call, remote, requests, result, geo>>

\* The loop body for the next image of args.images.
MainProcessImage ==
    /\ cli.pc = "loop"
    /\ cli.i < Len(cli.args.images)
    /\ \E service \in CliServices, api \in CliApi(gen), embedding \in EmbedOutcomes :
        LET i == cli.i + 1
            body == LoopBody(i, cli.args.images[i], cli.args, gen, service, api, embedding)
        IN cli' = [cli EXCEPT !.i = i,
                              !.lines = cli.lines \o body.lines,
                              !.steps = Append(cli.steps, body.step),
                              !.pc = IF body.exc = None THEN "loop" ELSE "raised"]
    /\ UNCHANGED <<genVars, geo>>

\* return 0, after the last image.
MainReturn ==
    /\ cli.pc = "loop"
    /\ cli.i = Len(cli.args.images)
    /\ cli' = [cli EXCEPT !.pc = "returned", !.exit = Some(0)]
    /\ UNCHANGED <<genVars, geo>>

NextCli == MainConstruct \/ MainProcessImage \/ MainReturn

SpecCli == InitCli /\ [][NextCli]_vars


-----------------------------------------------------------------------------
(* Properties of CaptionGenerator, checked under SpecGen *)

Returned == gpc = "returned" /\ call.kind = "generate"

IsClaude == gen.provider = S_claude

\* The call's model argument names no entry of the generator's catalog.
ExplicitModelAbsent == call.model # None /\ call.model[1] \notin DOMAIN gen.models

\* The call's model is defaulted, or names an entry of the catalog.
ModelResolves == call.model = None \/ call.model[1] \in DOMAIN gen.models

InvalidModelError ==
    /\ result.kind = "raise"
    /\ result.exc = "ValueError"
    /\ result.detail = IF IsClaude THEN "Invalid Claude model" ELSE "Invalid OpenAI model"

ImageDecodeError ==
    /\ result.kind = "raise"
    /\ result.exc \in {"FileNotFoundError", "UnidentifiedImageError"}

\* C1: for both providers, every style and every image path (valid or not), a
\* generate call with an explicit model key absent from the active provider's
\* catalog raises the invalid-model error and issues no request.
C1_InvalidModelFailsFirst ==
    (Returned /\ ExplicitModelAbsent) =>
        (InvalidModelError /\ requests = <<>> /\ remote = NotReached)

\* C1 witness: an openai generator is given a claude key and a missing file.
C1_Witness ==
    /\ Returned /\ ~IsClaude
    /\ call.model = Some("haiku")
    /\ call.image.file = "missing"
    /\ call.style = "haiku-poem"
    /\ result.kind = "raise"

\* C2: with no explicit model, the request carries the catalog identifier of
\* the premium tier (opus / gpt-4o) when style = social and of the fast tier
\* (haiku / gpt-4o-mini) otherwise, for every style, known or not; and such a
\* call with a decodable image does issue its request.
C2_DefaultModelByStyle ==
    (Returned /\ call.model = None) =>
        /\ call.image.file = "image" => Len(requests) = 1
        /\ \A i \in 1..Len(requests) :
             requests[i].model =
                IF IsClaude
                THEN (IF call.style = "social" THEN CLAUDE_MODELS["opus"].name
                      ELSE CLAUDE_MODELS["haiku"].name)
                ELSE (IF call.style = "social" THEN OPENAI_MODELS["gpt-4o"].name
                      ELSE OPENAI_MODELS["gpt-4o-mini"].name)

\* C2 witness: a claude generator defaults a social call to opus.
C2_Witness ==
    /\ Returned /\ IsClaude
    /\ call.model = None /\ call.style = "social"
    /\ Len(requests) = 1
    /\ requests[1].model = "claude-opus-4-5-20251101"

\* T(style) of C3: the table's template, the descriptive one for unknown keys.
C3_Template(style) ==
    IF style \in DOMAIN STYLES THEN STYLES[style]
    ELSE "Write a 2-3 sentence professional caption for this image."

\* C3: the prompt text sent by either provider is T(style) when the location
\* is absent or empty and T(style) + blank line + location otherwise; the style
\* lookup never fails (no call ends in a KeyError).
C3_PromptComposition ==
    Returned =>
        /\ \A i \in 1..Len(requests) :
             requests[i].text =
                IF call.location_context = None \/ call.location_context = Some("")
                THEN C3_Template(call.style)
                ELSE C3_Template(call.style) \o "\n\n" \o call.location_context[1]
        /\ ~(result.kind = "raise" /\ result.exc = "KeyError")

\* C3 witness: an openai request for an unknown style with a location.
C3_Witness ==
    /\ Returned /\ ~IsClaude
    /\ call.style = "haiku-poem"
    /\ call.location_context = Some("Location: Paris, France")
    /\ Len(requests) = 1
    /\ requests[1].text =
         "Write a 2-3 sentence professional caption for this image.\n\nLocation: Paris, France"

\* C4: with a valid or defaulted model and an image that cannot be decoded,
\* generate raises the image-decode error and no request is issued, for
\* either provider.
C4_BadImageNoRequest ==
    (Returned /\ ModelResolves /\ call.image.file # "image") =>
        (ImageDecodeError /\ requests = <<>> /\ remote = NotReached)

\* C4 witness: a file that is no image, given with a valid explicit model.
C4_Witness ==
    /\ Returned /\ IsClaude
    /\ call.model = Some("sonnet")
    /\ call.image.file = "not_an_image"
    /\ result.kind = "raise" /\ result.exc = "UnidentifiedImageError"

\* The provider's own environment variable.
C9_EnvOf(p) ==
    IF p = S_claude THEN environ["ANTHROPIC_API_KEY"] ELSE environ["OPENAI_API_KEY"]

C9_Bound ==
    gen.kind = "object" =>
        /\ gen.provider = Lower(ctorArgs.provider)
        /\ gen.models = IF gen.provider = S_claude THEN CLAUDE_MODELS ELSE OPENAI_MODELS

\* C9 as stated: construction fails iff the provider value is not one of
\* claude, openai, or no credential is resolvable, the credential being the
\* api_key when given and the provider's environment variable otherwise.
C9_AsStated ==
    ctorArgs.kind = "args" =>
        /\ gen.kind = "raise" <=>
             \/ ctorArgs.provider \notin {S_claude, S_openai}
             \/ LET credential == IF ctorArgs.api_key # None THEN ctorArgs.api_key
                                  ELSE C9_EnvOf(ctorArgs.provider)
                IN credential = None \/ credential = Some("")
        /\ gen.kind = "raise" => gen.exc = "ValueError"
        /\ C9_Bound

\* C9 amended: construction fails iff the provider value, lower-cased, is not
\* one of claude, openai, or no non-empty credential is resolvable, the
\* credential being the api_key when given and non-empty and the provider's
\* environment variable otherwise; on success provider (lower-cased) and
\* catalog are those of the chosen provider, in every later state.
C9_ConstructionAmended ==
    ctorArgs.kind = "args" =>
        /\ gen.kind = "raise" <=>
             \/ Lower(ctorArgs.provider) \notin {S_claude, S_openai}
             \/ LET given == ctorArgs.api_key # None /\ ctorArgs.api_key # Some("")
                    credential == IF given THEN ctorArgs.api_key
                                  ELSE C9_EnvOf(Lower(ctorArgs.provider))
                IN credential = None \/ credential = Some("")
        /\ gen.kind = "raise" => gen.exc = "ValueError"
        /\ C9_Bound

\* C9 witness: provider 'OPENAI' with an empty api_key is built from the
\* environment, and a generate call has returned.
C9_Witness ==
    /\ Returned
    /\ ctorArgs.provider = <<"O","P","E","N","A","I">>
    /\ ctorArgs.api_key = Some("")
    /\ gen.kind = "object" /\ gen.provider = S_openai
    /\ gen.api_key = Some("sk-env")

\* The text of the response the call received.
C10_ResponseText ==
    IF IsClaude THEN remote.content[1].text ELSE remote.choices[1].content[1]

C10_Blank(s) == \A i \in 1..Len(s) : s[i] \in Whitespace

\* C10: a generate call issues at most one request: exactly one when model
\* resolution and image preparation both succeed, none otherwise; a failed
\* request is raised to the caller, with the provider's detail and without a
\* second request; a returned caption is the whole response text with the
\* surrounding whitespace removed.
C10_OneRequestWholeCaption ==
    Returned =>
        /\ Len(requests) <= 1
        /\ Len(requests) = 1 <=> (ModelResolves /\ call.image.file = "image")
        /\ requests = <<>> <=> remote = NotReached
        /\ remote.kind = "error" =>
             (result.kind = "raise" /\ result.exc = "APIError"
                /\ result.detail = remote.detail)
        /\ result.kind = "return" =>
             /\ remote.kind = "response"
             /\ LET text == C10_ResponseText
                    v == result.value
                IN /\ v # <<>> => (v[1] \notin Whitespace /\ v[Len(v)] \notin Whitespace)
                   /\ \E i \in 0..Len(text) :
                        /\ i + Len(v) <= Len(text)
                        /\ SubSeq(text, i + 1, i + Len(v)) = v
                        /\ C10_Blank(SubSeq(text, 1, i))
                        /\ C10_Blank(SubSeq(text, i + Len(v) + 1, Len(text)))

\* C10 witness: a response padded on both sides is returned trimmed.
C10_Witness ==
    /\ Returned /\ Len(requests) = 1
    /\ remote.kind = "response"
    /\ result.kind = "return"
    /\ result.value = <<"a">>
    /\ Len(C10_ResponseText) >= 3
    /\ C10_ResponseText[1] \in Whitespace
    /\ C10_ResponseText[Len(C10_ResponseText)] \in Whitespace

-----------------------------------------------------------------------------
(* Properties of cli.main, checked under SpecCli *)

LinesOf(k) == {j \in 1..Len(cli.lines) : cli.lines[j].image = k}

\* The k-th iteration met an exception in its try block.
StepFailed(k) ==
    \/ cli.steps[k].geocode = "raise"
    \/ cli.steps[k].generate = "raise"
    \/ cli.steps[k].embed = "raise"

\* Some attempt of the k-th iteration's reverse_geocode call raised.
GeocodingFailed(k) ==
    \E a \in 1..Len(cli.steps[k].attempts) : cli.steps[k].attempts[a].kind = "raise"

\* C5: no failure of the geocoding service leaves reverse_geocode: whatever an
\* attempt raises, reverse_geocode returns (None when no attempt succeeds) and
\* caption generation for that image is still attempted.
C5_GeocodingAbsorbed ==
    \A k \in 1..Len(cli.steps) :
        GeocodingFailed(k) =>
            /\ cli.steps[k].geocode = "return"
            /\ cli.steps[k].generate # "not_called"

\* C7: an exception raised while one image is processed is caught at that
\* image and printed as its failure line; every later image is processed, and
\* main returns 0 whatever the number of failed images.  Only the constructor,
\* which runs before the loop, can raise out of main.
C7_FailuresStayPerImage ==
    /\ cli.pc = "raised" => (cli.i = 0 /\ gen.kind = "raise")
    /\ cli.pc = "returned" =>
         /\ cli.exit = Some(0)
         /\ cli.i = Len(cli.args.images)
    /\ cli.pc \in {"loop", "returned", "raised"} =>
         /\ Len(cli.steps) = cli.i
         /\ \A k \in 1..cli.i :
              /\ LinesOf(k) # {}
              /\ StepFailed(k) =>
                   \E j \in LinesOf(k) : cli.lines[j].mark = "failure"

\* C7 witness: the first of two images failed in caption generation, the
\* second one was captioned, and main returned 0.
C7_Witness ==
    /\ cli.pc = "returned" /\ cli.exit = Some(0)
    /\ Len(cli.args.images) = 2
    /\ cli.steps[1].generate = "raise"
    /\ cli.steps[2].generate = "return"
    /\ \E j \in LinesOf(2) : cli.lines[j].mark = "success"

\* C8: each image given to the command line gets exactly one printed line, a
\* success line or a failure line, also when embedding fails after the
\* caption was generated.
C8_OneLinePerImage ==
    \A k \in 1..Len(cli.steps) : Cardinality(LinesOf(k)) = 1

====
